---- MODULE Spec2Model ----
(***************************************************************************)
(* Model of app.py, the multi-month sales dashboard: one run of the script *)
(* over an uploaded ZIP archive.  The run ingests the archive entry by     *)
(* entry, gates on the number of monthly snapshots, compares the two       *)
(* latest months, builds the per-product history, forecasts the selected   *)
(* product and summarises all products.                                    *)
(*                                                                         *)
(* Numbers are exact: a float that the script computes by a division is    *)
(* kept as a fraction [num, den] (or marked nan), so comparisons with the  *)
(* thresholds and roundings are decided exactly.  Dates are day ordinals   *)
(* counted from 2025-01-01 (ordinal 0); the least-squares fit and its      *)
(* predictions do not depend on the origin of the ordinal scale.           *)
(***************************************************************************)
EXTENDS Integers, Sequences, FiniteSets, TLC

VARIABLES pc, nread, entry, dfs, warnings, nstored, error_shown,
          all_dates, merged, history, selected_forecast_prod,
          future_dates, forecast_qty, all_forecasts

vars == <<pc, nread, entry, dfs, warnings, nstored, error_shown,
          all_dates, merged, history, selected_forecast_prod,
          future_dates, forecast_qty, all_forecasts>>

(* ---------------------------------------------------------------------- *)
(* Bounds and input sets                                                   *)
(* ---------------------------------------------------------------------- *)

\* number of entries in the uploaded archive
MaxEntries == 3

\* product names in their sort order (Python string order)
ProductOrder == <<"A", "B">>

Row(p, q, v) == [Product_Name |-> p, Quantity_Sold |-> q, Sales_Value |-> v]

\* rows of the uploaded sheets
RowSet == {Row("A", 9, 4), Row("A", 10, 5), Row("A", 11, 0),
           Row("A", 0, 0), Row("B", 10, 7), Row("B", 15, 7)}

\* sheets: empty, one row, two products, and a product on two rows
Sheets == {<< >>} \cup {<<r>> : r \in RowSet}
             \cup {<<Row("A", 10, 5), Row("B", 10, 7)>>,
                   <<Row("B", 10, 7), Row("A", 11, 0)>>,
                   <<Row("A", 9, 4), Row("A", 11, 0)>>}

RequiredColumns == {"Product_Name", "Quantity_Sold", "Sales_Value"}

\* file names, as the "_"-separated tokens left once ".xlsx" is removed
GoodNames == {<<"sales", "january", "2025">>, <<"sales", "february", "2025">>,
              <<"sales", "march", "2025">>, <<"march", "2025">>}
BadNames == {<<"sales", "2025">>, <<"march">>}

Entry(parts, ext, readable, columns, rows) ==
    [parts |-> parts, ext |-> ext, readable |-> readable,
     columns |-> columns, rows |-> rows]

\* the entries an archive can hold
Entries ==
    {Entry(n, "xlsx", TRUE, RequiredColumns, s) : n \in GoodNames, s \in Sheets}
    \cup {Entry(n, "xlsx", TRUE, RequiredColumns \cup {"Region"}, <<Row("A", 10, 5)>>)
            : n \in BadNames}
    \cup {Entry(<<"sales", "march", "2025">>, "xlsx", TRUE,
                {"Product_Name", "Quantity_Sold"}, <<Row("A", 10, 5)>>),
          Entry(<<"sales", "february", "2025">>, "xlsx", FALSE, {}, << >>),
          Entry(<<"notes">>, "txt", TRUE, {}, << >>)}

NoEntry == Entry(<< >>, "", TRUE, {}, << >>)

(* ---------------------------------------------------------------------- *)
(* Calendar                                                                *)
(* ---------------------------------------------------------------------- *)

\* first day of each month of 2025 and of January 2026, as day ordinals
MonthStart == <<0, 31, 59, 90, 120, 151, 181, 212, 243, 273, 304, 334, 365>>

MonthNames == <<"january", "february", "march", "april", "may", "june", "july",
                "august", "september", "october", "november", "december">>

Years == {"2025"}

NoDate == -1

\* pd.to_datetime(parts[-2] + " " + parts[-1], format="%B %Y"); NoDate when
\* the indexing or the parse raises
ParseDate(parts) ==
    IF Len(parts) < 2 THEN NoDate
    ELSE LET month == parts[Len(parts) - 1]
             year  == parts[Len(parts)]
             ms    == {m \in DOMAIN MonthNames : MonthNames[m] = month}
         IN IF ms = {} \/ year \notin Years THEN NoDate
            ELSE MonthStart[CHOOSE m \in ms : TRUE]

\* month (1..12) that holds the day d of 2025
MonthOf(d) == CHOOSE m \in 1..12 : MonthStart[m] <= d /\ d < MonthStart[m + 1]

Min2(a, b) == IF a < b THEN a ELSE b

\* variant of AddMonth: thirty days later
AddThirtyDays(d) == d + 30

\* d + pd.DateOffset(months=1): same day of the next month, clipped to its end
AddMonth(d) ==
    LET m   == MonthOf(d)
        dom == d - MonthStart[m]
        len == IF m + 2 <= Len(MonthStart) THEN MonthStart[m + 2] - MonthStart[m + 1] ELSE 31
    IN MonthStart[m + 1] + Min2(dom, len - 1)

\* datetime.toordinal
toordinal(d) == d

(* ---------------------------------------------------------------------- *)
(* Ingestion loop                                                          *)
(* ---------------------------------------------------------------------- *)

Init ==
    /\ pc = "ingest"
    /\ nread = 0
    /\ entry = NoEntry
    /\ dfs = << >>
    /\ warnings = 0
    /\ nstored = 0
    /\ error_shown = FALSE
    /\ all_dates = << >>
    /\ merged = << >>
    /\ history = << >>
    /\ selected_forecast_prod = ""
    /\ future_dates = << >>
    /\ forecast_qty = << >>
    /\ all_forecasts = << >>

\* dfs is a Python dict: its items in insertion order
DictKeys(d) == [i \in DOMAIN d |-> d[i].key]
KeySet(d) == {d[i].key : i \in DOMAIN d}
DictGet(d, k) == d[CHOOSE i \in DOMAIN d : d[i].key = k].val

\* variant of DictSet: every file becomes an item of its own
DictSetPerFile(d, k, v) == Append(d, [key |-> k, val |-> v])

\* dfs[date] = df: a new key is appended, an old key keeps its place
DictSet(d, k, v) ==
    IF k \in KeySet(d)
      THEN [i \in DOMAIN d |-> IF d[i].key = k THEN [key |-> k, val |-> v] ELSE d[i]]
      ELSE Append(d, [key |-> k, val |-> v])

post == <<all_dates, merged, history, selected_forecast_prod,
          future_dates, forecast_qty, all_forecasts>>

\* one iteration of "for name in z.namelist()"
IngestEntry ==
    /\ pc = "ingest"
    /\ nread < MaxEntries
    /\ \E e \in Entries :
         /\ entry' = e
         /\ nread' = nread + 1
         /\ IF e.ext # "xlsx"
              THEN /\ pc' = "ingest"
                   /\ UNCHANGED <<dfs, warnings, nstored>>
            ELSE IF ~e.readable
              THEN \* pd.read_excel raises outside the try block
                   /\ pc' = "crashed"
                   /\ UNCHANGED <<dfs, warnings, nstored>>
            ELSE IF ~(RequiredColumns \subseteq e.columns)
              THEN /\ pc' = "ingest"
                   /\ warnings' = warnings + 1
                   /\ UNCHANGED <<dfs, nstored>>
            ELSE IF ParseDate(e.parts) = NoDate
              THEN /\ pc' = "ingest"
                   /\ warnings' = warnings + 1
                   /\ UNCHANGED <<dfs, nstored>>
            ELSE /\ pc' = "ingest"
                 /\ dfs' = DictSet(dfs, ParseDate(e.parts), e.rows)
                 /\ nstored' = nstored + 1
                 /\ UNCHANGED warnings
    /\ UNCHANGED <<error_shown, post>>

MinSnapshots == 2

\* the archive is exhausted, the loop variable is dead: "if len(dfs) < 2"
CheckSnapshots ==
    /\ pc = "ingest"
    /\ IF Len(dfs) < MinSnapshots
         THEN /\ pc' = "done"
              /\ error_shown' = TRUE
         ELSE /\ pc' = "compare"
              /\ UNCHANGED error_shown
    /\ entry' = NoEntry
    /\ UNCHANGED <<nread, dfs, warnings, nstored, post>>

(* ---------------------------------------------------------------------- *)
(* Month-over-month comparison                                             *)
(* ---------------------------------------------------------------------- *)

\* a float: a fraction num/den (den # 0), or not-a-number
Frac(n, d) == [nan |-> FALSE, num |-> n, den |-> d]
NaN == [nan |-> TRUE, num |-> 0, den |-> 1]

\* g > k and g < k on floats; every comparison with NaN is false
Gt(g, k) == /\ ~g.nan
            /\ IF g.den > 0 THEN g.num > k * g.den ELSE g.num < k * g.den
Lt(g, k) == /\ ~g.nan
            /\ IF g.den > 0 THEN g.num < k * g.den ELSE g.num > k * g.den

RECURSIVE SortedSeq(_)
\* the integers of a set in ascending order
SortedSeq(S) ==
    IF S = {} THEN << >>
    ELSE LET m == CHOOSE x \in S : \A y \in S : x <= y
         IN <<m>> \o SortedSeq(S \ {m})

\* variant of sorted: the keys in insertion order
sortedAsInserted(keys) == keys

\* sorted(keys) for a sequence of distinct keys
sorted(keys) == SortedSeq({keys[i] : i \in DOMAIN keys})

\* the product names of a set, in sort order
SortedProducts(S) ==
    LET InS(p) == p \in S IN SelectSeq(ProductOrder, InS)

Keys(df) == {df[i].Product_Name : i \in DOMAIN df}

RowsOf(df, key) ==
    LET IsKey(r) == r.Product_Name = key IN SelectSeq(df, IsKey)

\* .fillna(0) on a cell: << >> is a missing cell, <<x>> holds x
fillna(cell) == IF cell = << >> THEN 0 ELSE cell[1]

MergedRow(key, qc, vc, qp, vp) ==
    [Product_Name |-> key,
     Quantity_Sold_curr |-> fillna(qc), Sales_Value_curr |-> fillna(vc),
     Quantity_Sold_prev |-> fillna(qp), Sales_Value_prev |-> fillna(vp)]

\* the rows pd.merge(how="outer") emits for one key: every left row paired
\* with every right row, or the rows of one side with the other side missing
JoinKey(left, right, key) ==
    LET L == RowsOf(left, key)
        R == RowsOf(right, key)
    IN IF L = << >>
         THEN [i \in 1..Len(R) |->
                 MergedRow(key, << >>, << >>,
                           <<R[i].Quantity_Sold>>, <<R[i].Sales_Value>>)]
       ELSE IF R = << >>
         THEN [i \in 1..Len(L) |->
                 MergedRow(key, <<L[i].Quantity_Sold>>, <<L[i].Sales_Value>>,
                           << >>, << >>)]
       ELSE [i \in 1..(Len(L) * Len(R)) |->
               LET l == L[((i - 1) \div Len(R)) + 1]
                   r == R[((i - 1) % Len(R)) + 1]
               IN MergedRow(key, <<l.Quantity_Sold>>, <<l.Sales_Value>>,
                            <<r.Quantity_Sold>>, <<r.Sales_Value>>)]

RECURSIVE JoinKeys(_, _, _)
JoinKeys(left, right, keys) ==
    IF keys = << >> THEN << >>
    ELSE JoinKey(left, right, Head(keys)) \o JoinKeys(left, right, Tail(keys))

\* variant of OuterMerge: how="left", the keys of the left frame only
OuterMergeLeft(current, prev) ==
    JoinKeys(current, prev, SortedProducts(Keys(current)))

\* pd.merge(current, prev, on="Product_Name", how="outer").fillna(0)
OuterMerge(current, prev) ==
    JoinKeys(current, prev, SortedProducts(Keys(current) \cup Keys(prev)))

\* (curr - prev) / prev.replace(0, np.nan) * 100
GrowthPct(curr, prev) ==
    IF prev = 0 THEN NaN ELSE Frac((curr - prev) * 100, prev)

SpikeThreshold == 10
DropThreshold == -10

\* variant of label_growth: the thresholds themselves count as spike and drop
label_growth_inclusive(g) ==
    IF ~Lt(g, SpikeThreshold) /\ ~g.nan THEN "Spike"
    ELSE IF ~Gt(g, DropThreshold) /\ ~g.nan THEN "Drop"
    ELSE "Stable"

label_growth(g) ==
    IF Gt(g, SpikeThreshold) THEN "Spike"
    ELSE IF Lt(g, DropThreshold) THEN "Drop"
    ELSE "Stable"

\* the comparison table: merge, growth columns, alert column
CompareSnapshots(current, prev) ==
    LET m == OuterMerge(current, prev)
    IN [i \in DOMAIN m |->
          LET gq == GrowthPct(m[i].Quantity_Sold_curr, m[i].Quantity_Sold_prev)
              gv == GrowthPct(m[i].Sales_Value_curr, m[i].Sales_Value_prev)
          IN [Product_Name |-> m[i].Product_Name,
              Quantity_Sold_curr |-> m[i].Quantity_Sold_curr,
              Sales_Value_curr |-> m[i].Sales_Value_curr,
              Quantity_Sold_prev |-> m[i].Quantity_Sold_prev,
              Sales_Value_prev |-> m[i].Sales_Value_prev,
              Growth_Quantity |-> gq,
              Growth_Value |-> gv,
              Alert |-> label_growth(gq)]]

\* current_df = dfs[all_dates[-1]], prev_df = dfs[all_dates[-2]]
current_df == DictGet(dfs, all_dates[Len(all_dates)])
prev_df == DictGet(dfs, all_dates[Len(all_dates) - 1])

\* all_dates = sorted(dfs.keys()) and the comparison of the last two months
Compare ==
    /\ pc = "compare"
    /\ all_dates' = sorted(DictKeys(dfs))
    /\ merged' = LET ad == sorted(DictKeys(dfs))
                 IN CompareSnapshots(DictGet(dfs, ad[Len(ad)]),
                                     DictGet(dfs, ad[Len(ad) - 1]))
    /\ pc' = "forecast"
    /\ UNCHANGED <<nread, entry, dfs, warnings, nstored, error_shown, history,
                   selected_forecast_prod, future_dates, forecast_qty,
                   all_forecasts>>

(* ---------------------------------------------------------------------- *)
(* History, forecast of the selected product, summary of all products      *)
(* ---------------------------------------------------------------------- *)

RECURSIVE SumOf(_, _)
\* sum of f[i] over the indices i of the set I
SumOf(f, I) ==
    IF I = {} THEN 0
    ELSE LET i == CHOOSE j \in I : TRUE IN f[i] + SumOf(f, I \ {i})

\* the rows of one date after groupby(["Date", "Product_Name"]).agg(sum)
GroupDate(date, df) ==
    LET ps == SortedProducts(Keys(df))
    IN [i \in DOMAIN ps |->
          LET rows == RowsOf(df, ps[i])
          IN [Date |-> date, Product_Name |-> ps[i],
              Quantity_Sold |-> SumOf([j \in DOMAIN rows |-> rows[j].Quantity_Sold], DOMAIN rows),
              Sales_Value |-> SumOf([j \in DOMAIN rows |-> rows[j].Sales_Value], DOMAIN rows),
              Date_Ordinal |-> toordinal(date)]]

RECURSIVE GroupDates(_, _)
GroupDates(d, dates) ==
    IF dates = << >> THEN << >>
    ELSE GroupDate(Head(dates), DictGet(d, Head(dates))) \o GroupDates(d, Tail(dates))

\* history: one row per (Date, Product_Name) of the combined sheets, sorted
History(d) == GroupDates(d, sorted(DictKeys(d)))

\* history[history["Product_Name"] == prod]
HistOf(h, prod) ==
    LET IsProd(r) == r.Product_Name = prod IN SelectSeq(h, IsProd)

\* LinearRegression().fit(x, y): least squares on centred data; the
\* minimum-norm solution has coefficient 0 when x does not vary
LinearFit(x, y) ==
    LET n   == Len(x)
        I   == DOMAIN x
        Sx  == SumOf(x, I)
        Sy  == SumOf(y, I)
        Sxx == n * SumOf([i \in I |-> x[i] * x[i]], I) - Sx * Sx
        Sxy == n * SumOf([i \in I |-> x[i] * y[i]], I) - Sx * Sy
        coef == IF Sxx = 0 THEN Frac(0, 1) ELSE Frac(Sxy, Sxx)
    IN [coef |-> coef,
        intercept |-> Frac(Sy * coef.den - coef.num * Sx, n * coef.den)]

\* variant of Predict: negative predictions are clamped to zero
PredictClamped(model, x) ==
    LET v == model.coef.num * x * (model.intercept.den \div model.coef.den)
               + model.intercept.num
    IN Frac(IF v < 0 THEN 0 ELSE v, model.intercept.den)

\* model.predict: coef * x + intercept, on the denominator of the intercept
\* (a multiple of the denominator of coef)
Predict(model, x) ==
    Frac(model.coef.num * x * (model.intercept.den \div model.coef.den)
            + model.intercept.num,
         model.intercept.den)

HorizonDays == 30

\* pd.date_range(start=last + pd.Timedelta(days=1), periods=30)
DateRange(last) == [i \in 1..HorizonDays |-> last + 1 + (i - 1)]

\* hist["Date"].max()
MaxDate(h) == CHOOSE d \in {h[i].Date : i \in DOMAIN h} :
                 \A i \in DOMAIN h : h[i].Date <= d

QtyFit(h) == LinearFit([i \in DOMAIN h |-> h[i].Date_Ordinal],
                       [i \in DOMAIN h |-> h[i].Quantity_Sold])
ValFit(h) == LinearFit([i \in DOMAIN h |-> h[i].Date_Ordinal],
                       [i \in DOMAIN h |-> h[i].Sales_Value])

\* model.predict over the forecast dates
PredictAll(model, dates) ==
    [k \in DOMAIN dates |-> Predict(model, toordinal(dates[k]))]

\* history and the 30-day forecast of the product picked in the selectbox
Forecast ==
    /\ pc = "forecast"
    /\ \E h \in {History(dfs)} :
         /\ history' = h
         /\ IF Keys(h) = {}
              THEN \* selectbox yields None, fit on an empty frame raises
                   /\ pc' = "crashed"
                   /\ UNCHANGED <<selected_forecast_prod, future_dates, forecast_qty>>
              ELSE \E prod \in Keys(h) :
                     \E hist \in {HistOf(h, prod)} :
                       \E model \in {QtyFit(hist)}, fd \in {DateRange(MaxDate(hist))} :
                         /\ selected_forecast_prod' = prod
                         /\ future_dates' = fd
                         /\ forecast_qty' = PredictAll(model, fd)
                         /\ pc' = "summary"
    /\ UNCHANGED <<nread, entry, dfs, warnings, nstored, error_shown,
                   all_dates, merged, all_forecasts>>

\* round(x) of a float num/den with den > 0: nearest integer, ties to even
RoundHalfEven(num, den) ==
    LET q == num \div den
        r == num - q * den
    IN IF 2 * r < den THEN q
       ELSE IF 2 * r > den THEN q + 1
       ELSE IF q % 2 = 0 THEN q ELSE q + 1

\* round(x) and round(x, 2) of a fraction; the latter in hundredths
Round0(f) == IF f.den > 0 THEN RoundHalfEven(f.num, f.den)
             ELSE RoundHalfEven(-f.num, -f.den)
Round2(f) == IF f.den > 0 THEN RoundHalfEven(100 * f.num, f.den)
             ELSE RoundHalfEven(-100 * f.num, -f.den)

MinHistoryRows == 2

\* variant of SummaryOf: the length of the history is not tested
SummaryOfUnguarded(h, prod) ==
    LET hist_prod == HistOf(h, prod)
        ordinal   == toordinal(AddMonth(MaxDate(hist_prod)))
    IN <<[Product_Name |-> prod,
          Forecasted_30d_Quantity |-> Round0(Predict(QtyFit(hist_prod), ordinal)),
          Forecasted_Sales_Value |-> Round2(Predict(ValFit(hist_prod), ordinal))]>>

\* the summary row of one product, or nothing
SummaryOf(h, prod) ==
    LET hist_prod == HistOf(h, prod)
    IN IF Len(hist_prod) >= MinHistoryRows
         THEN LET ordinal == toordinal(AddMonth(MaxDate(hist_prod)))
              IN <<[Product_Name |-> prod,
                    Forecasted_30d_Quantity |-> Round0(Predict(QtyFit(hist_prod), ordinal)),
                    Forecasted_Sales_Value |-> Round2(Predict(ValFit(hist_prod), ordinal))]>>
         ELSE << >>

RECURSIVE SummaryRows(_, _)
SummaryRows(h, prods) ==
    IF prods = << >> THEN << >>
    ELSE SummaryOf(h, Head(prods)) \o SummaryRows(h, Tail(prods))

\* "for prod in sorted(history["Product_Name"].unique())"
Summarize ==
    /\ pc = "summary"
    /\ all_forecasts' = SummaryRows(history, SortedProducts(Keys(history)))
    /\ pc' = "done"
    /\ UNCHANGED <<nread, entry, dfs, warnings, nstored, error_shown, all_dates,
                   merged, history, selected_forecast_prod, future_dates,
                   forecast_qty>>

Next == IngestEntry \/ CheckSnapshots \/ Compare \/ Forecast \/ Summarize

Spec == Init /\ [][Next]_vars

(* ---------------------------------------------------------------------- *)
(* Properties                                                              *)
(* ---------------------------------------------------------------------- *)

\* the comparison stage has run
Compared == all_dates # << >>

\* the summary stage has run
Summarized == pc = "done" /\ ~error_shown

Products == {ProductOrder[i] : i \in DOMAIN ProductOrder}

RowsWithKey(t, key) == {i \in DOMAIN t : t[i].Product_Name = key}

\* C1: every Product_Name of either compared snapshot appears exactly once
\* in the comparison table, with zero previous columns when it is only in
\* the current snapshot and zero current columns when it is only in the
\* previous one, also when a name occurs on several rows of a snapshot.
C1_OuterJoinExactlyOnce ==
    Compared =>
      \A key \in Keys(current_df) \cup Keys(prev_df) :
        /\ Cardinality(RowsWithKey(merged, key)) = 1
        /\ \A i \in RowsWithKey(merged, key) :
             /\ key \notin Keys(prev_df) =>
                  merged[i].Quantity_Sold_prev = 0 /\ merged[i].Sales_Value_prev = 0
             /\ key \notin Keys(current_df) =>
                  merged[i].Quantity_Sold_curr = 0 /\ merged[i].Sales_Value_curr = 0

\* g > k, g = k for a growth fraction g that is a number, by cross-multiplying
Above(g, k) == \/ g.den > 0 /\ g.num > k * g.den
               \/ g.den < 0 /\ g.num < k * g.den
Equal(g, k) == g.num = k * g.den

\* C2: the alert of every comparison row is Spike exactly when its quantity
\* growth g is above 10, Drop exactly when g is below -10 and Stable
\* otherwise; g = 10 and g = -10 are Stable; each row has one of the three
\* labels.
C2_AlertThreeWay ==
    Compared =>
      \A i \in DOMAIN merged :
        LET g == merged[i].Growth_Quantity
            a == merged[i].Alert
            neg == Frac(-g.num, g.den)
        IN /\ a \in {"Spike", "Drop", "Stable"}
           /\ a = "Spike" <=> (~g.nan /\ Above(g, 10))
           /\ a = "Drop" <=> (~g.nan /\ Above(neg, 10))
           /\ (~g.nan /\ (Equal(g, 10) \/ Equal(g, -10))) => a = "Stable"

\* C2 witness: a comparison with a row at exactly +10% and a row at exactly
\* -10%, both Stable
C2_Witness ==
    /\ Compared
    /\ \E i, j \in DOMAIN merged :
         /\ ~merged[i].Growth_Quantity.nan /\ Equal(merged[i].Growth_Quantity, 10)
         /\ ~merged[j].Growth_Quantity.nan /\ Equal(merged[j].Growth_Quantity, -10)
         /\ merged[i].Alert = "Stable" /\ merged[j].Alert = "Stable"

\* C3: a comparison row whose previous quantity is zero has an undefined
\* quantity growth and carries none of the labels Spike, Drop, Stable.
C3_ZeroPrevNoAlert ==
    Compared =>
      \A i \in DOMAIN merged :
        merged[i].Quantity_Sold_prev = 0 =>
          /\ merged[i].Growth_Quantity.nan
          /\ merged[i].Alert \notin {"Spike", "Drop", "Stable"}

\* an .xlsx entry that cannot be read, lacks a required column, or whose
\* name does not end in a month and a year
IsIngestionError(e) ==
    /\ e.ext = "xlsx"
    /\ \/ ~e.readable
       \/ ~(RequiredColumns \subseteq e.columns)
       \/ ParseDate(e.parts) = NoDate

\* C4: every ingestion error (unreadable entry, missing column, unparsable
\* name) raises one warning, leaves the snapshots as they were, and the
\* loop goes on to the next entry instead of ending the run with a fault.
C4_IngestionErrorsSkipped ==
    [][(pc = "ingest" /\ nread' = nread + 1 /\ IsIngestionError(entry')) =>
         (warnings' = warnings + 1 /\ dfs' = dfs /\ pc' = "ingest")]_vars

\* C5: comparison, forecast and summary run only with at least two
\* snapshots of distinct months; with fewer, the finished run has shown the
\* error and computed no comparison, forecast or summary; files of the same
\* month count once.
C5_GateOnTwoSnapshots ==
    /\ (\/ pc \in {"compare", "forecast", "summary"}
        \/ all_dates # << >> \/ merged # << >> \/ history # << >>
        \/ forecast_qty # << >> \/ all_forecasts # << >>)
         => Cardinality(KeySet(dfs)) >= 2
    /\ (pc = "done" /\ Cardinality(KeySet(dfs)) < 2)
         => /\ error_shown
            /\ all_dates = << >> /\ merged = << >> /\ history = << >>
            /\ forecast_qty = << >> /\ all_forecasts = << >>
    /\ error_shown => Cardinality(KeySet(dfs)) < 2

\* C5 witness: two valid files of the same month were stored, one snapshot
\* remains and the run ended with the error
C5_Witness ==
    /\ pc = "done" /\ error_shown
    /\ nstored >= 2
    /\ Cardinality(KeySet(dfs)) = 1

\* dates of the snapshots in which prod has a row
DatesOf(prod) == {dfs[i].key : i \in {j \in DOMAIN dfs : prod \in Keys(dfs[j].val)}}

\* C6: the summary has no row for a product with fewer than 2 distinct
\* dates and exactly one row for every product with at least 2.
C6_SummaryNeedsTwoDates ==
    /\ \A i \in DOMAIN all_forecasts :
         Cardinality(DatesOf(all_forecasts[i].Product_Name)) >= 2
    /\ Summarized =>
         \A prod \in Products :
           Cardinality(RowsWithKey(all_forecasts, prod)) =
             IF Cardinality(DatesOf(prod)) >= 2 THEN 1 ELSE 0

\* C6 witness: a finished summary with one product left out for having a
\* single date and one product included
C6_Witness ==
    /\ Summarized
    /\ \E p \in Products : Cardinality(DatesOf(p)) = 1
    /\ \E p \in Products : Cardinality(DatesOf(p)) >= 2 /\ RowsWithKey(all_forecasts, p) # {}

\* quantity of prod summed over the rows of the snapshot of date d
QtyOn(prod, d) ==
    LET rows == RowsOf(DictGet(dfs, d), prod)
    IN SumOf([j \in DOMAIN rows |-> rows[j].Quantity_Sold], DOMAIN rows)

Forecasted == forecast_qty # << >>

\* C7: the forecast of the selected product covers the 30 consecutive days
\* that start the day after its latest date, and the predictions lie on the
\* least-squares line of its history (coefficient 0 for a single date),
\* without clamping: all on one denominator, equally spaced, and with
\* residuals over the history that sum to zero and are orthogonal to the
\* ordinals.
C7_ForecastWindowOnFitLine ==
    Forecasted =>
      LET D    == DatesOf(selected_forecast_prod)
          last == CHOOSE d \in D : \A e \in D : e <= d
          den  == forecast_qty[1].den
          step == forecast_qty[2].num - forecast_qty[1].num
          at   == [d \in D |-> forecast_qty[1].num - (future_dates[1] - d) * step]
          res  == [d \in D |-> QtyOn(selected_forecast_prod, d) * den - at[d]]
      IN /\ Len(future_dates) = 30 /\ Len(forecast_qty) = 30
         /\ \A i \in 1..30 : future_dates[i] = last + i
         /\ den > 0
         /\ \A i \in 1..30 :
              /\ ~forecast_qty[i].nan
              /\ forecast_qty[i].den = den
              /\ forecast_qty[i].num = forecast_qty[1].num + (i - 1) * step
         /\ SumOf(res, D) = 0
         /\ SumOf([d \in D |-> d * res[d]], D) = 0
         /\ Cardinality(D) = 1 => step = 0

\* C7 witness: a declining history over several dates whose forecast goes
\* negative
C7_Witness ==
    /\ Forecasted
    /\ Cardinality(DatesOf(selected_forecast_prod)) >= 2
    /\ \E i \in DOMAIN forecast_qty : forecast_qty[i].num < 0

\* sum of the 30 daily predictions that follow the last date of prod
WindowSum(prod) ==
    LET hist  == HistOf(history, prod)
        preds == PredictAll(QtyFit(hist), DateRange(MaxDate(hist)))
    IN Frac(SumOf([i \in DOMAIN preds |-> preds[i].num], DOMAIN preds), preds[1].den)

\* C8: the total forecast quantity of every summary row is the sum of the
\* predictions over the 30 days after the product's last date, rounded to
\* the nearest integer.
C8_TotalIsWindowSum ==
    Summarized =>
      \A i \in DOMAIN all_forecasts :
        all_forecasts[i].Forecasted_30d_Quantity =
          Round0(WindowSum(all_forecasts[i].Product_Name))

\* the least-squares line of prod over its dates, evaluated at ordinal x,
\* in centred form: mean(y) + cov(x, y) / var(x) * (x - mean(x))
LineAt(prod, x) ==
    LET D   == DatesOf(prod)
        n   == Cardinality(D)
        Sx  == SumOf([d \in D |-> d], D)
        Sy  == SumOf([d \in D |-> QtyOn(prod, d)], D)
        Sxx == SumOf([d \in D |-> (n * d - Sx) * (n * d - Sx)], D)
        Sxy == SumOf([d \in D |-> (n * d - Sx) * (n * QtyOn(prod, d) - Sy)], D)
    IN Frac(Sy * Sxx + Sxy * (n * x - Sx), n * Sxx)

\* r is num/den (den > 0) rounded to the nearest integer, ties to even
IsNearestEven(r, num, den) ==
    LET twice == 2 * num - 2 * r * den
    IN /\ -den <= twice /\ twice <= den
       /\ (twice = den \/ twice = -den) => r % 2 = 0

\* C8 amended: the forecast quantity of every summary row is the single
\* prediction of the product's least-squares line at the date one calendar
\* month after its last date, rounded to the nearest integer (ties to even).
C8_TotalIsNextMonthPoint ==
    Summarized =>
      \A i \in DOMAIN all_forecasts :
        LET prod   == all_forecasts[i].Product_Name
            D      == DatesOf(prod)
            last   == CHOOSE d \in D : \A e \in D : e <= d
            m      == CHOOSE k \in 1..12 : MonthStart[k] = last
            point  == LineAt(prod, MonthStart[m + 1])
        IN IsNearestEven(all_forecasts[i].Forecasted_30d_Quantity,
                         point.num, point.den)

\* C8 witness: a summary row whose quantity is not zero and differs from
\* the rounded 30-day sum
C8_Witness ==
    /\ Summarized
    /\ \E i \in DOMAIN all_forecasts :
         /\ all_forecasts[i].Forecasted_30d_Quantity # 0
         /\ all_forecasts[i].Forecasted_30d_Quantity #
              Round0(WindowSum(all_forecasts[i].Product_Name))

\* a comparison row with its curr and prev columns exchanged
SwappedColumns(r) ==
    [Product_Name |-> r.Product_Name,
     Quantity_Sold_curr |-> r.Quantity_Sold_prev,
     Sales_Value_curr |-> r.Sales_Value_prev,
     Quantity_Sold_prev |-> r.Quantity_Sold_curr,
     Sales_Value_prev |-> r.Sales_Value_curr]

Columns(r) ==
    [Product_Name |-> r.Product_Name,
     Quantity_Sold_curr |-> r.Quantity_Sold_curr,
     Sales_Value_curr |-> r.Sales_Value_curr,
     Quantity_Sold_prev |-> r.Quantity_Sold_prev,
     Sales_Value_prev |-> r.Sales_Value_prev]

\* growth of a row computed as (curr - prev) / prev * 100
GrowthIs(g, curr, prev) ==
    IF prev = 0 THEN g.nan
    ELSE ~g.nan /\ g.num * prev = (curr - prev) * 100 * g.den

\* the comparison with the two snapshots exchanged
swapped == CompareSnapshots(prev_df, current_df)

\* C9: the comparison of the exchanged snapshots has as many rows and the
\* same keys; its rows are the rows of the comparison with the curr and
\* prev columns exchanged; its growth is recomputed by
\* (curr - prev) / prev * 100 on the exchanged values and its alert follows
\* the thresholds on that recomputed growth.
C9_SwapSymmetry ==
    Compared =>
      /\ Len(swapped) = Len(merged)
      /\ Keys(swapped) = Keys(merged)
      /\ \A i \in DOMAIN merged :
           Cardinality({j \in DOMAIN swapped : Columns(swapped[j]) = SwappedColumns(merged[i])})
             = Cardinality({j \in DOMAIN merged : Columns(merged[j]) = Columns(merged[i])})
      /\ \A j \in DOMAIN swapped :
           LET g == swapped[j].Growth_Quantity
           IN /\ GrowthIs(g, swapped[j].Quantity_Sold_curr, swapped[j].Quantity_Sold_prev)
              /\ swapped[j].Alert =
                   IF ~g.nan /\ Above(g, 10) THEN "Spike"
                   ELSE IF ~g.nan /\ Above(Frac(-g.num, g.den), 10) THEN "Drop"
                   ELSE "Stable"

\* C9 witness: a +50% row that becomes -100/3 % when the snapshots are
\* exchanged, next to a key that only one snapshot has
C9_Witness ==
    /\ Compared
    /\ Keys(current_df) # Keys(prev_df)
    /\ \E i \in DOMAIN merged, j \in DOMAIN swapped :
         /\ Columns(swapped[j]) = SwappedColumns(merged[i])
         /\ ~merged[i].Growth_Quantity.nan /\ Equal(merged[i].Growth_Quantity, 50)
         /\ ~swapped[j].Growth_Quantity.nan
         /\ 3 * swapped[j].Growth_Quantity.num = -100 * swapped[j].Growth_Quantity.den
         /\ merged[i].Alert = "Spike" /\ swapped[j].Alert = "Drop"

\* C10: a valid file replaces the snapshot of its month and leaves the
\* other months alone, so the last file of a month wins; the comparison
\* takes the latest month as current and the second latest month as
\* previous, whatever the order of the archive.
C10_LatestTwoMonths ==
    [][/\ (pc = "ingest" /\ nstored' = nstored + 1) =>
            LET d == ParseDate(entry'.parts)
            IN /\ KeySet(dfs') = KeySet(dfs) \cup {d}
               /\ Len(dfs') = Cardinality(KeySet(dfs'))
               /\ DictGet(dfs', d) = entry'.rows
               /\ \A k \in KeySet(dfs) \ {d} : DictGet(dfs', k) = DictGet(dfs, k)
       /\ (pc = "compare" /\ pc' = "forecast") =>
            LET latest == CHOOSE d \in KeySet(dfs) : \A e \in KeySet(dfs) : e <= d
                rest   == KeySet(dfs) \ {latest}
                second == CHOOSE d \in rest : \A e \in rest : e <= d
            IN /\ second < latest
               /\ all_dates'[Len(all_dates')] = latest
               /\ all_dates'[Len(all_dates') - 1] = second
               /\ merged' = CompareSnapshots(DictGet(dfs, latest), DictGet(dfs, second))
      ]_vars

\* C10 witness: a comparison made from an archive that is not in
\* chronological order and in which a month was uploaded twice
C10_Witness ==
    /\ Compared
    /\ nstored > Len(dfs)
    /\ \E i, j \in DOMAIN dfs : i < j /\ dfs[i].key > dfs[j].key
====
